---- MODULE Spec2Model ----
(***************************************************************************)
(* Model of squirrel_tree.trie.Trie: a compressed (radix) trie with a      *)
(* reactor that is called back at every structural change.                  *)
(*                                                                         *)
(* Nodes live in a heap `nodes` (object id -> fields of the Trie object).   *)
(* Strings are sequences of characters.  Every public operation            *)
(* (__setitem__, __delitem__, __getitem__) is one action; the recursive     *)
(* helpers are operators over a "machine" record                            *)
(*     [nodes, ev, err, ret, reactor, order]                               *)
(* holding the heap, the callbacks delivered so far in this call, the       *)
(* exception in flight ("none" when there is none) and the value returned.  *)
(*                                                                         *)
(* The iteration order of a Python dict is not fixed by the program but is  *)
(* stable: `order` remembers, for every set of keys the loop of             *)
(* _find_best_prefix had to choose among, the key it met first.  A choice   *)
(* not made yet is open, so the traversals return sets of outcomes.         *)
(***************************************************************************)
EXTENDS Integers, Sequences, FiniteSets, TLC

VARIABLES nodes, reactor, order, events, last, kv, faults, balance

vars == <<nodes, reactor, order, events, last, kv, faults, balance>>

-----------------------------------------------------------------------------
(* Bounds of the model *)

MaxKeyLen == 3
MaxStored == 3
MaxFaults == 2

Alphabet == {"a", "b"}

RECURSIVE StringsUpTo(_)
StringsUpTo(n) ==
  IF n = 0 THEN {<<>>}
  ELSE LET shorter == StringsUpTo(n - 1)
       IN shorter \cup {Append(s, c) : s \in {t \in shorter : Len(t) = n - 1}, c \in Alphabet}

\* The keys of the calls: a^i and a^i b up to MaxKeyLen characters, the empty
\* key included.  They give prefix chains (a, aa, aaa), partial overlaps
\* (aa/ab, aaa/aab, ab/aaa) and unrelated keys (a.../b).
Keys == {s \in StringsUpTo(MaxKeyLen) : \A i \in 1..(Len(s) - 1) : s[i] = "a"}
Values == {1, 2}

-----------------------------------------------------------------------------
(* Python values *)

None == 0
Root == 1
EmptyDict == [x \in {} |-> None]
Reactors == {"EmptyReactor", "FullReactor"}

DictSet(d, k, v) == [x \in DOMAIN d \cup {k} |-> IF x = k THEN v ELSE d[x]]
DictDel(d, k) == [x \in DOMAIN d \ {k} |-> d[x]]

Slice(s, from) == SubSeq(s, from + 1, Len(s))

\* os.path.commonprefix([s, t]), as its length
CommonLen(s, t) ==
  LET n == IF Len(s) < Len(t) THEN Len(s) ELSE Len(t)
  IN Cardinality({i \in 1..n : \A j \in 1..i : s[j] = t[j]})

Raise(m, exc) == [m EXCEPT !.err = exc]

-----------------------------------------------------------------------------
(* Trie.chain *)

RECURSIVE chain(_, _)
chain(ns, id) ==
  IF ns[id].parent # None
  THEN chain(ns, ns[id].parent) \o <<ns[id].suffix>>
  ELSE <<ns[id].suffix>>

-----------------------------------------------------------------------------
(* Reactor callbacks.  Each delivered callback is logged with its payload, *)
(* the node it is about, and the heap as it is at the moment of the call.   *)

Event(m, kind, id, ch, value, old_key, new_chain, new_key) ==
  [kind |-> kind, node |-> id, chain |-> ch, value |-> value,
   old_key |-> old_key, new_chain |-> new_chain, new_key |-> new_key,
   nodes |-> m.nodes]

Deliver(m, e) == [m EXCEPT !.ev = Append(@, e)]

create_callback(m, id) ==
  Deliver(m, Event(m, "create", id, chain(m.nodes, id), None, <<>>, <<>>, <<>>))

insert_callback(m, id, value) ==
  Deliver(m, Event(m, "insert", id, chain(m.nodes, id), value, <<>>, <<>>, <<>>))

delete_callback(m, id, content) ==
  Deliver(m, Event(m, "delete", id, chain(m.nodes, id), content, <<>>, <<>>, <<>>))

move_callback(m, id, old_chain, old_key, new_chain, new_key) ==
  Deliver(m, Event(m, "move", id, old_chain, None, old_key, new_chain, new_key))

\* EmptyReactor defines no remove_callback: the attribute lookup raises.
remove_callback(m, id) ==
  IF m.reactor = "EmptyReactor"
  THEN Raise(m, "AttributeError")
  ELSE Deliver(m, Event(m, "remove", id, chain(m.nodes, id), None, <<>>, <<>>, <<>>))

-----------------------------------------------------------------------------
(* Trie.__init__ *)

NewId(ns) == CHOOSE i \in 1..(Cardinality(DOMAIN ns) + 1) :
               i \notin DOMAIN ns /\ \A j \in 1..(i - 1) : j \in DOMAIN ns

TrieInit(m, id, parent, suffix) ==
  LET obj == [suffix |-> suffix, parent |-> parent, subtries |-> EmptyDict,
              content |-> None, has_content |-> FALSE]
      m1 == [m EXCEPT !.nodes = DictSet(m.nodes, id, obj)]
  IN IF Len(suffix) = 0 /\ parent # None
     THEN Raise(m, "ValueError")
     ELSE create_callback(m1, id)

-----------------------------------------------------------------------------
(* _find_best_prefix: the <<prefix, length>> pairs the loop can return;     *)
(* the empty set stands for None.                                           *)

Matching(ns, id, rkey) == {p \in DOMAIN ns[id].subtries : CommonLen(p, rkey) > 0}

_find_best_prefix(m, id, rkey) ==
  LET hits == Matching(m.nodes, id, rkey)
      first == IF hits \in DOMAIN m.order THEN {m.order[hits]} ELSE hits
  IN {<<prefix, CommonLen(prefix, rkey)>> : prefix \in first}

\* The machine once the loop has met `prefix` first.
Iterated(m, id, rkey, prefix) ==
  LET hits == Matching(m.nodes, id, rkey)
  IN IF Cardinality(hits) > 1 THEN [m EXCEPT !.order = DictSet(@, hits, prefix)] ELSE m

-----------------------------------------------------------------------------
(* register_child, move *)

register_child(m, id, child, suffix) ==
  IF suffix \in DOMAIN m.nodes[id].subtries
  THEN Raise(m, "AssertionError")
  ELSE [m EXCEPT !.nodes[id].subtries = DictSet(@, suffix, child)]

\* A variant that reparents the node but leaves its _suffix as it was.
move_keeping_suffix(m, id, parent, suffix) ==
  register_child([m EXCEPT !.nodes[id].parent = parent], parent, id, suffix)

move(m, id, parent, suffix) ==
  register_child([m EXCEPT !.nodes[id].parent = parent,
                           !.nodes[id].suffix = suffix],
                 parent, id, suffix)

-----------------------------------------------------------------------------
(* __getitem__ / _get_relative                                             *)

\* <<exception, prefix, length>> for every key the loop can meet first
_find_containing_prefix(m, id, rkey) ==
  {IF Len(b[1]) # b[2] THEN <<"KeyError", b[1], b[2]>> ELSE <<"none", b[1], b[2]>> :
      b \in _find_best_prefix(m, id, rkey)}

RECURSIVE _get_relative(_, _, _)
_get_relative(m, id, rkey) ==
  IF rkey = <<>>
  THEN IF ~m.nodes[id].has_content
       THEN {Raise(m, "KeyError")}
       ELSE {[m EXCEPT !.ret = m.nodes[id].content]}
  ELSE LET found == _find_containing_prefix(m, id, rkey)
       IN IF found = {}
          THEN {Raise(m, "KeyError")}
          ELSE UNION {LET m1 == Iterated(m, id, rkey, f[2])
                      IN IF f[1] # "none"
                         THEN {Raise(m1, f[1])}
                         ELSE _get_relative(m1, m1.nodes[id].subtries[f[2]],
                                            Slice(rkey, f[3])) :
                      f \in found}

-----------------------------------------------------------------------------
(* __setitem__ / _set_relative and its four possibilities                   *)

SetContent(m, id, value) ==
  insert_callback([m EXCEPT !.nodes[id].content = value,
                            !.nodes[id].has_content = TRUE], id, value)

_add_in_new_subtrie(m, id, rkey, value) ==
  LET new_subtrie == NewId(m.nodes)
      m1 == TrieInit(m, new_subtrie, id, rkey)
  IN IF m1.err # "none" THEN m1
     ELSE SetContent([m1 EXCEPT !.nodes[id].subtries = DictSet(@, rkey, new_subtrie)],
                     new_subtrie, value)

_move_subtree_down(m, id, prefix, where_to) ==
  LET subtrie == m.nodes[id].subtries[prefix]
      new_prefix == Slice(prefix, Len(where_to))
      new_parent == m.nodes[id].subtries[where_to]
      m1 == move(m, subtrie, new_parent, new_prefix)
  IN IF m1.err # "none" THEN m1
     ELSE LET m2 == [m1 EXCEPT !.nodes[id].subtries = DictDel(@, prefix)]
          IN move_callback(m2, subtrie, chain(m2.nodes, id), prefix,
                           chain(m2.nodes, new_parent), new_prefix)

\* A variant that adds the new subtrie but leaves the longer child where it was.
_add_over_subtree_without_move(m, id, rkey, value, prefix) ==
  _add_in_new_subtrie(m, id, rkey, value)

_add_over_subtree(m, id, rkey, value, prefix) ==
  LET m1 == _add_in_new_subtrie(m, id, rkey, value)
  IN IF m1.err # "none" THEN m1
     ELSE _move_subtree_down(m1, id, prefix, rkey)

RECURSIVE _set_relative(_, _, _, _)
_add_intersecting(m, id, rkey, value, prefix, length) ==
  LET intersection == SubSeq(rkey, 1, length)
      intersection_subtrie == NewId(m.nodes)
  IN IF intersection # SubSeq(prefix, 1, length) THEN {Raise(m, "AssertionError")}
     ELSE IF intersection \in DOMAIN m.nodes[id].subtries THEN {Raise(m, "AssertionError")}
     ELSE LET m1 == TrieInit(m, intersection_subtrie, id, intersection)
          IN IF m1.err # "none" THEN {m1}
             ELSE LET m2 == [m1 EXCEPT !.nodes[id].subtries =
                                          DictSet(@, intersection, intersection_subtrie)]
                      m3 == _move_subtree_down(m2, id, prefix, intersection)
                  IN IF m3.err # "none" THEN {m3}
                     ELSE _set_relative(m3, intersection_subtrie, Slice(rkey, length), value)

_set_relative(m, id, rkey, value) ==
  IF rkey = <<>>
  THEN {SetContent(m, id, value)}
  ELSE LET best == _find_best_prefix(m, id, rkey)
       IN IF best = {}
          THEN {_add_in_new_subtrie(m, id, rkey, value)}
          ELSE UNION {LET prefix == b[1]
                          length == b[2]
                          m1 == Iterated(m, id, rkey, prefix)
                      IN IF length = Len(prefix)
                         THEN _set_relative(m1, m1.nodes[id].subtries[prefix],
                                            Slice(rkey, length), value)
                         ELSE IF length = Len(rkey)
                         THEN {_add_over_subtree(m1, id, rkey, value, prefix)}
                         ELSE _add_intersecting(m1, id, rkey, value, prefix, length) :
                      b \in best}

-----------------------------------------------------------------------------
(* __delitem__ / _del_relative, unregister_child and _compact               *)

RECURSIVE _compact(_, _)
unregister_child(m, id, suffix) ==
  IF suffix \notin DOMAIN m.nodes[id].subtries
  THEN Raise(m, "AssertionError")
  ELSE _compact([m EXCEPT !.nodes[id].subtries = DictDel(@, suffix)], id)

\* A variant that removes empty leaves but never merges a node with its only child.
_compact_without_merge(m, id) ==
  LET self == m.nodes[id]
  IN IF self.has_content THEN m
     ELSE IF self.suffix = <<>> THEN m
     ELSE IF Cardinality(DOMAIN self.subtries) = 0
     THEN LET m1 == remove_callback(m, id)
          IN IF m1.err # "none" THEN m1
             ELSE unregister_child(m1, self.parent, self.suffix)
     ELSE m

_compact(m, id) ==
  LET self == m.nodes[id]
  IN IF self.has_content THEN m
     ELSE IF self.suffix = <<>> THEN m
     ELSE IF Cardinality(DOMAIN self.subtries) = 0
     THEN LET m1 == remove_callback(m, id)
          IN IF m1.err # "none" THEN m1
             ELSE unregister_child(m1, self.parent, self.suffix)
     ELSE IF Cardinality(DOMAIN self.subtries) = 1
     THEN LET suffix == CHOOSE s \in DOMAIN self.subtries : TRUE
              child == self.subtries[suffix]
              new_suffix == self.suffix \o suffix
              m1 == move(m, child, self.parent, new_suffix)
          IN IF m1.err # "none" THEN m1
             ELSE LET m2 == move_callback(m1, child, chain(m1.nodes, id), suffix,
                                          chain(m1.nodes, m1.nodes[id].parent), new_suffix)
                      m3 == remove_callback(m2, id)
                  IN IF m3.err # "none" THEN m3
                     ELSE unregister_child(m3, m3.nodes[id].parent, m3.nodes[id].suffix)
     ELSE m

\* A variant that does not check for content before clearing it.
RECURSIVE _del_relative_unchecked(_, _, _)
_del_relative_unchecked(m, id, rkey) ==
  IF rkey = <<>>
  THEN LET m1 == [m EXCEPT !.nodes[id].has_content = FALSE]
           m2 == delete_callback(m1, id, m1.nodes[id].content)
       IN {_compact([m2 EXCEPT !.nodes[id].content = None], id)}
  ELSE LET found == _find_containing_prefix(m, id, rkey)
       IN IF found = {}
          THEN {Raise(m, "KeyError")}
          ELSE UNION {LET m1 == Iterated(m, id, rkey, f[2])
                      IN IF f[1] # "none"
                         THEN {Raise(m1, f[1])}
                         ELSE _del_relative_unchecked(m1, m1.nodes[id].subtries[f[2]],
                                 Slice(rkey, f[3])) :
                      f \in found}

RECURSIVE _del_relative(_, _, _)
_del_relative(m, id, rkey) ==
  IF rkey = <<>>
  THEN IF ~m.nodes[id].has_content
       THEN {Raise(m, "KeyError")}
       ELSE LET m1 == [m EXCEPT !.nodes[id].has_content = FALSE]
                m2 == delete_callback(m1, id, m1.nodes[id].content)
            IN {_compact([m2 EXCEPT !.nodes[id].content = None], id)}
  ELSE LET found == _find_containing_prefix(m, id, rkey)
       IN IF found = {}
          THEN {Raise(m, "KeyError")}
          ELSE UNION {LET m1 == Iterated(m, id, rkey, f[2])
                      IN IF f[1] # "none"
                         THEN {Raise(m1, f[1])}
                         ELSE _del_relative(m1, m1.nodes[id].subtries[f[2]],
                                 Slice(rkey, f[3])) :
                      f \in found}

\* __len__
RECURSIVE __len__(_, _)
RECURSIVE SumLen(_, _, _)
SumLen(ns, d, ks) ==
  IF ks = {} THEN 0
  ELSE LET k == CHOOSE x \in ks : TRUE
       IN __len__(ns, d[k]) + SumLen(ns, d, ks \ {k})

__len__(ns, id) == 1 + SumLen(ns, ns[id].subtries, DOMAIN ns[id].subtries)

-----------------------------------------------------------------------------
(* Objects that are still referenced from the root (through _subtries and   *)
(* _parent); everything else is reclaimed when a call returns.              *)

RECURSIVE ReachFrom(_, _)
ReachFrom(ns, seen) ==
  LET more == UNION {{ns[i].subtries[s] : s \in DOMAIN ns[i].subtries} : i \in seen}
              \cup {ns[i].parent : i \in {j \in seen : ns[j].parent # None}}
  IN IF more \subseteq seen THEN seen ELSE ReachFrom(ns, seen \cup more)

Collect(ns) == [i \in ReachFrom(ns, {Root}) |-> ns[i]]

\* Object identities carry no meaning of their own: after each call the
\* surviving objects are renamed 1..n in the order a depth-first walk from the
\* root meets them (children in the order of their keys), so that equal trees
\* are equal states.
Digit(c) == IF c = "a" THEN 1 ELSE 2

RECURSIVE PathCode(_, _)
PathCode(code, s) ==
  IF s = <<>> THEN code ELSE PathCode(4 * code + Digit(Head(s)), Tail(s))

RECURSIVE Walk(_, _, _)
RECURSIVE WalkChildren(_, _, _, _)
Walk(ns, id, met) ==
  IF \E k \in DOMAIN met : met[k] = id THEN met
  ELSE WalkChildren(ns, id, DOMAIN ns[id].subtries, Append(met, id))

WalkChildren(ns, id, keys, met) ==
  IF keys = {} THEN met
  ELSE LET s == CHOOSE x \in keys : \A y \in keys : PathCode(0, x) <= PathCode(0, y)
       IN WalkChildren(ns, id, keys \ {s}, Walk(ns, ns[id].subtries[s], met))

RECURSIVE WalkRest(_, _)
WalkRest(ids, met) ==
  IF ids = {} THEN met
  ELSE LET i == CHOOSE x \in ids : \A y \in ids : x <= y
       IN WalkRest(ids \ {i}, Append(met, i))

Rename(ns) ==
  LET inside == Walk(ns, Root, <<>>)
      met == WalkRest(DOMAIN ns \ {inside[k] : k \in DOMAIN inside}, inside)
      New(i) == CHOOSE k \in DOMAIN met : met[k] = i
  IN [n \in DOMAIN met |->
        [ns[met[n]] EXCEPT
            !.parent = IF @ = None THEN None ELSE New(@),
            !.subtries = [s \in DOMAIN ns[met[n]].subtries |->
                             New(ns[met[n]].subtries[s])]]]

Return(ns) == Rename(Collect(ns))

-----------------------------------------------------------------------------
(* The state machine.                                                       *)
(*   nodes    the heap of Trie objects, Root being the trie the caller holds *)
(*   reactor  the class of the reactor the trie was constructed with        *)
(*   order    the dict iteration choices made so far                        *)
(*   events   the callbacks delivered during the latest call                *)
(*   last     the latest call: operation, arguments, exception, result and  *)
(*            the heap it started from                                      *)
(*   kv       a plain dict driven by the same calls (reference mapping)     *)
(*   faults   how many calls ended in an exception other than KeyError       *)
(*   balance  create callbacks minus remove callbacks delivered so far       *)
(* The caller alternates between making a call and taking its outcome       *)
(* (Observe), which empties the log of delivered callbacks.                 *)

CountKind(ev, kind) == Cardinality({i \in DOMAIN ev : ev[i].kind = kind})
Tally(ev) == balance' = balance + CountKind(ev, "create") - CountKind(ev, "remove")

Machine == [nodes |-> nodes, ev |-> <<>>, err |-> "none", ret |-> None,
            reactor |-> reactor, order |-> order]

Init ==
  /\ reactor \in Reactors
  /\ order = EmptyDict
  /\ LET m == TrieInit([nodes |-> EmptyDict, ev |-> <<>>, err |-> "none",
                        ret |-> None, reactor |-> reactor, order |-> EmptyDict],
                       Root, None, <<>>)
     IN /\ nodes = m.nodes
        /\ events = m.ev
        /\ last = [op |-> "init", key |-> <<>>, value |-> None, err |-> m.err,
                   pre |-> EmptyDict, held |-> FALSE]
        /\ balance = CountKind(m.ev, "create") - CountKind(m.ev, "remove")
  /\ kv = EmptyDict
  /\ faults = 0

Idle == last.op = "idle"

\* The outcomes [err, value] that get(k) can have in the current state
Get(k) == {[err |-> r.err, value |-> r.ret] : r \in _get_relative(Machine, Root, k)}
Found(v) == [err |-> "none", value |-> v]
KeyNotFound == [err |-> "KeyError", value |-> None]

Fault(err) == err \notin {"none", "KeyError"}
Count(err) ==
  /\ Fault(err) => faults < MaxFaults
  /\ faults' = IF Fault(err) THEN faults + 1 ELSE faults

__setitem__(key, value) ==
  /\ Idle
  /\ key \in DOMAIN kv \/ Cardinality(DOMAIN kv) < MaxStored
  /\ \E m \in _set_relative(Machine, Root, key, value) :
       /\ nodes' = Return(m.nodes)
       /\ events' = m.ev
       /\ order' = m.order
       /\ last' = [op |-> "set", key |-> key, value |-> value, err |-> m.err,
                   pre |-> nodes, held |-> Get(key) # {KeyNotFound}]
       /\ kv' = IF m.err = "none" THEN DictSet(kv, key, value) ELSE kv
       /\ Count(m.err)
       /\ Tally(m.ev)
  /\ UNCHANGED reactor

__delitem__(key) ==
  /\ Idle
  /\ \E m \in _del_relative(Machine, Root, key) :
       /\ nodes' = Return(m.nodes)
       /\ events' = m.ev
       /\ order' = m.order
       /\ last' = [op |-> "del", key |-> key, value |-> None, err |-> m.err,
                   pre |-> nodes, held |-> Get(key) # {KeyNotFound}]
       /\ kv' = IF m.err = "KeyError" THEN kv ELSE DictDel(kv, key)
       /\ Count(m.err)
       /\ Tally(m.ev)
  /\ UNCHANGED reactor

__getitem__(key) ==
  /\ Idle
  /\ \E m \in _get_relative(Machine, Root, key) :
       /\ order' = m.order
       /\ last' = [op |-> "get", key |-> key, value |-> m.ret, err |-> m.err,
                   pre |-> nodes, held |-> Get(key) # {KeyNotFound}]
  /\ events' = <<>>
  /\ UNCHANGED <<nodes, reactor, kv, faults, balance>>

\* Iteration changes nothing and is not counted among the faults.
__iter__ ==
  /\ Idle
  /\ last' = [op |-> "iter", key |-> <<>>, value |-> None,
              err |-> "NotImplementedError", pre |-> nodes, held |-> FALSE]
  /\ events' = <<>>
  /\ UNCHANGED <<nodes, reactor, order, kv, faults, balance>>

Observe ==
  /\ ~Idle
  /\ events' = <<>>
  /\ last' = [op |-> "idle", key |-> <<>>, value |-> None, err |-> "none",
              pre |-> EmptyDict, held |-> FALSE]
  /\ UNCHANGED <<nodes, reactor, order, kv, faults, balance>>

Next ==
  \/ \E key \in Keys, value \in Values : __setitem__(key, value)
  \/ \E key \in Keys : __delitem__(key)
  \/ \E key \in Keys : __getitem__(key)
  \/ __iter__
  \/ Observe

Spec == Init /\ [][Next]_vars

\* Calls of __setitem__ and __getitem__ only, on an initially empty trie.
NextSets ==
  \/ \E key \in Keys, value \in Values : __setitem__(key, value)
  \/ \E key \in Keys : __getitem__(key)
  \/ Observe

SpecSets == Init /\ [][NextSets]_vars

\* A trie constructed with a reactor that implements all five callbacks.
SpecFull == (Init /\ reactor = "FullReactor") /\ [][Next]_vars

-----------------------------------------------------------------------------
(* Vocabulary of the properties *)

Completed == last.op \in {"set", "del"} /\ last.err = "none"

Kinds == [i \in DOMAIN events |-> events[i].kind]
Fired(kind) == \E i \in DOMAIN events : events[i].kind = kind

NonRoot(ns) == DOMAIN ns \ {Root}
InTrie(ns) == LET met == Walk(ns, Root, <<>>) IN {met[k] : k \in DOMAIN met}

RECURSIVE Concat(_)
Concat(ch) == IF ch = <<>> THEN <<>> ELSE Head(ch) \o Concat(Tail(ch))

SiblingsDisjoint(ns) ==
  \A id \in DOMAIN ns : \A p, q \in DOMAIN ns[id].subtries :
     p # q => CommonLen(p, q) = 0

Compacted(ns) ==
  \A id \in NonRoot(ns) :
     ~ns[id].has_content => Cardinality(DOMAIN ns[id].subtries) >= 2

RootOnly(ns) ==
  /\ DOMAIN ns = {Root}
  /\ ~ns[Root].has_content
  /\ DOMAIN ns[Root].subtries = {}

-----------------------------------------------------------------------------
\* C1: Round trip. After any sequence of set calls on an initially empty trie,
\* every set call has completed and get(k) returns, for every key set so far,
\* the value last set for it.
RoundTrip ==
  /\ last.op = "set" => last.err = "none"
  /\ \A k \in DOMAIN kv : Get(k) = {Found(kv[k])}

\* A set that split an existing child (a move was delivered) on a trie that
\* then holds MaxStored keys, has a content-less branch node, and returns 2
\* for a key whose last value is 2.
RoundTripWitness ==
  /\ last.op = "set" /\ last.err = "none"
  /\ Fired("move")
  /\ Cardinality(DOMAIN kv) = MaxStored
  /\ \E id \in NonRoot(nodes) : ~nodes[id].has_content
  /\ \E k \in DOMAIN kv : kv[k] = 2 /\ Get(k) = {Found(2)}

\* C2: Sibling disjointness. After every completed set or delete, no two
\* distinct children of any node have suffixes sharing a non-empty prefix.
SiblingDisjointness == Completed => SiblingsDisjoint(nodes)

\* C3: Compaction invariant. After every completed set or delete, every
\* non-root node without content has at least two children.
CompactionInvariant == Completed => Compacted(nodes)

\* C4: Deletion completeness. Once every key that was set has been deleted
\* again, the trie is the root alone, without content or children, of size 1.
DeletionCompleteness ==
  (last.op = "del" /\ last.err # "KeyError" /\ DOMAIN kv = {})
     => RootOnly(nodes) /\ __len__(nodes, Root) = 1

\* C5: After a delete of a key that holds content the call has completed, and
\* get of that key fails with KeyError until the key is set again.

DeleteThenGetFails ==
  /\ (last.op = "del" /\ last.held) => last.err = "none"
  /\ \A k \in Keys \ DOMAIN kv : Get(k) = {KeyNotFound}

\* C6: A delete of a key that holds no content fails with KeyError, delivers
\* no callback and leaves the tree as it was.
DeleteAbsentKey ==
  (last.op = "del" /\ ~last.held)
     => last.err = "KeyError" /\ events = <<>> /\ nodes = last.pre

\* A failed delete whose key names a branch node that holds no content.
DeleteAbsentKeyWitness ==
  /\ last.op = "del" /\ ~last.held /\ last.err = "KeyError"
  /\ faults = 0 /\ DOMAIN kv # {}
  /\ \E id \in NonRoot(nodes) :
        ~nodes[id].has_content /\ Concat(chain(nodes, id)) = last.key

\* C7: A trie constructed with the default reactor runs every set, and every
\* delete of a key that holds content, to completion without raising.
DefaultReactorNeverRaises ==
  (/\ reactor = "EmptyReactor"
   /\ last.op = "set" \/ (last.op = "del" /\ last.held))
     => last.err = "none"

\* C8: The delete callback carries the chain of the parent of the node whose
\* content is cleared, and the old value, and precedes every remove and move
\* callback of the same call.
ParentOf(e) == e.nodes[e.node].parent

DeleteCarriesParentChain ==
  \A i \in DOMAIN events :
     (events[i].kind = "delete" /\ ParentOf(events[i]) # None) =>
        /\ events[i].chain = chain(events[i].nodes, ParentOf(events[i]))
        /\ events[i].value = last.pre[events[i].node].content
        /\ \A j \in 1..(i - 1) : events[j].kind \notin {"remove", "move"}

\* C9: When a callback is delivered the pointers already show the change: a
\* created node is registered with its parent, a removed node is not, a moved
\* node is registered under its new parent only and the new parent's children
\* are pairwise disjoint.
ChildrenOf(ns, id) == {ns[id].subtries[s] : s \in DOMAIN ns[id].subtries}
Parents(ns, id) == {p \in DOMAIN ns : id \in ChildrenOf(ns, p)}

ConsistentAt(e) ==
  /\ (e.kind = "create" /\ ParentOf(e) # None) => e.node \in ChildrenOf(e.nodes, ParentOf(e))
  /\ e.kind = "remove" => Parents(e.nodes, e.node) = {}
  /\ e.kind = "move" =>
        /\ Parents(e.nodes, e.node) = {ParentOf(e)}
        /\ \A p, q \in DOMAIN e.nodes[ParentOf(e)].subtries :
              p # q => CommonLen(p, q) = 0

CallbacksSeeConsistentTree == \A i \in DOMAIN events : ConsistentAt(events[i])

\* C10: Chain correctness. After any sequence of sets and deletes, for every
\* node of the trie that holds content, get of the concatenation of its chain
\* returns exactly that content.
ChainCorrectness ==
  \A id \in InTrie(nodes) :
     nodes[id].has_content =>
        Get(Concat(chain(nodes, id))) = {Found(nodes[id].content)}

\* C11: Callbacks are delivered exactly once per structural change: a completed
\* set delivers exactly one insert callback, and after the construction and
\* after every completed set or delete the size of the trie equals the number
\* of create callbacks minus the number of remove callbacks delivered so far.
EventsExactlyOnce ==
  /\ (last.op = "set" /\ last.err = "none") => CountKind(events, "insert") = 1
  /\ (last.op = "init" \/ Completed) => __len__(nodes, Root) = balance

\* C12: set never fails. In every trie reachable by set and delete calls every
\* set completes, and no call ends in a violated assertion of register_child,
\* unregister_child or _add_intersecting.
SetNeverFails ==
  /\ last.op = "set" => last.err = "none"
  /\ last.err # "AssertionError"

\* C13: Iteration totality. Iterating the trie yields, in pre-order with the
\* children of every node in lexicographic order of their suffixes, exactly
\* the (key, value) pairs of the nodes that hold content, each once.
LexLeq(s, t) ==
  LET n == CommonLen(s, t)
  IN n = Len(s) \/ (n < Len(t) /\ Digit(s[n + 1]) < Digit(t[n + 1]))

RECURSIVE PreOrder(_, _)
RECURSIVE PreOrderChildren(_, _, _)
PreOrder(ns, id) ==
  (IF ns[id].has_content
   THEN <<(<<Concat(chain(ns, id)), ns[id].content>>)>>
   ELSE <<>>) \o PreOrderChildren(ns, id, DOMAIN ns[id].subtries)

PreOrderChildren(ns, id, keys) ==
  IF keys = {} THEN <<>>
  ELSE LET s == CHOOSE x \in keys : \A y \in keys : LexLeq(x, y)
       IN PreOrder(ns, ns[id].subtries[s]) \o PreOrderChildren(ns, id, keys \ {s})

IterationTotality ==
  last.op = "iter" => (last.err = "none" /\ last.value = PreOrder(nodes, Root))

\* The case of _set_relative that a set of rkey below node id ends in, for
\* every child the loop of _find_best_prefix can meet first.
RECURSIVE SetCases(_, _, _)
SetCases(m, id, rkey) ==
  IF rkey = <<>> THEN {"content"}
  ELSE LET best == _find_best_prefix(m, id, rkey)
       IN IF best = {} THEN {"new leaf"}
          ELSE UNION {IF b[2] = Len(b[1])
                      THEN SetCases(Iterated(m, id, rkey, b[1]),
                                    m.nodes[id].subtries[b[1]], Slice(rkey, b[2]))
                      ELSE IF b[2] = Len(rkey) THEN {"key is prefix"}
                      ELSE {"partial overlap"} :
                      b \in best}

\* The case the latest call, a set, took on the tree it started from (the
\* choices it made among the children are in `order`).
Took(case) ==
  /\ last.op = "set"
  /\ SetCases([Machine EXCEPT !.nodes = last.pre], Root, last.key) = {case}

Last(seq) == seq[Len(seq)]

\* C14: Key-is-strict-prefix case of set. The callbacks are delivered in the
\* order create (new node), move (the child, under the new node, its suffix
\* truncated by the length of the key), insert (value on the new node).
KeyIsPrefixOrder ==
  Took("key is prefix") =>
     /\ last.err = "none"
     /\ Kinds = <<"create", "move", "insert">>
     /\ events[2].new_chain = events[1].chain
     /\ events[2].new_key = Slice(events[2].old_key, Len(Last(events[1].chain)))
     /\ events[3].chain = events[1].chain /\ events[3].value = last.value

\* C15: Partial-overlap case of set. The set completes, delivers create
\* (branch), move (old child), create (leaf), insert (value) in this order,
\* and leaves a content-less branch at the shared prefix whose two children
\* are the old child, its suffix truncated, and a new leaf holding the value.
PartialOverlapSplit ==
  Took("partial overlap") =>
     /\ last.err = "none"
     /\ Kinds = <<"create", "move", "create", "insert">>
     /\ LET after == events[4].nodes
            branch == events[1].node
            old == events[2].node
            leaf == events[3].node
            shared == Len(after[branch].suffix)
        IN /\ nodes = Return(after)
           /\ shared > 0
           /\ shared = CommonLen(events[2].old_key, after[branch].suffix \o after[leaf].suffix)
           /\ ~after[branch].has_content
           /\ ChildrenOf(after, branch) = {old, leaf} /\ old # leaf
           /\ after[old].suffix = Slice(events[2].old_key, shared)
           /\ after[old].suffix # <<>> /\ after[leaf].suffix # <<>>
           /\ after[old].parent = branch /\ after[leaf].parent = branch
           /\ after[leaf].has_content /\ after[leaf].content = last.value
           /\ events[4].node = leaf
           /\ Concat(chain(after, leaf)) = last.key

\* The node a delete that cleared the content of node n leaves without
\* content and with exactly one child: n itself when it has one child, or the
\* content-less parent of the leaf n when n has exactly one sibling.
Merged(pre, n) ==
  IF pre[n].parent = None THEN {}
  ELSE IF Cardinality(DOMAIN pre[n].subtries) = 1 THEN {n}
  ELSE LET p == pre[n].parent
       IN IF /\ DOMAIN pre[n].subtries = {}
             /\ pre[p].parent # None
             /\ ~pre[p].has_content
             /\ Cardinality(DOMAIN pre[p].subtries) = 2
          THEN {p} ELSE {}

\* C16: Merge step of compaction. When a delete leaves a non-root node without
\* content and with exactly one child, the delete completes, the child is
\* reparented to the node's parent under node.suffix + child.suffix, a move
\* callback is delivered, then a remove callback for the emptied node, and
\* the node is detached.
MergeStep ==
  (last.op = "del" /\ last.held /\ events # <<>>) =>
     \A node \in Merged(last.pre, events[1].node) :
        LET pre == last.pre
            n == events[1].node
            suffix == CHOOSE s \in DOMAIN pre[node].subtries :
                         node = n \/ pre[node].subtries[s] # n
            child == pre[node].subtries[suffix]
            new_suffix == pre[node].suffix \o suffix
            k == Len(events)
        IN /\ last.err = "none"
           /\ Kinds = IF node = n THEN <<"delete", "move", "remove">>
                      ELSE <<"delete", "remove", "move", "remove">>
           /\ events[k - 1].node = child
           /\ events[k - 1].chain = chain(pre, node)
           /\ events[k - 1].old_key = suffix
           /\ events[k - 1].new_chain = chain(pre, pre[node].parent)
           /\ events[k - 1].new_key = new_suffix
           /\ events[k].node = node
           /\ events[k].chain = chain(pre, node)
           /\ \A id \in DOMAIN nodes : chain(nodes, id) # chain(pre, node)
           /\ \E id \in NonRoot(nodes) :
                 /\ chain(nodes, id) = chain(pre, pre[node].parent) \o <<new_suffix>>
                 /\ nodes[nodes[id].parent].subtries[new_suffix] = id
                 /\ nodes[id].has_content = pre[child].has_content
                 /\ nodes[id].content = pre[child].content
                 /\ DOMAIN nodes[id].subtries = DOMAIN pre[child].subtries

\* C17: Map refinement. After every sequence of set and delete calls, get
\* returns the value of the reference mapping for every key in it and fails
\* with KeyError for every other key.
MapRefinement ==
  \A k \in Keys :
     Get(k) = IF k \in DOMAIN kv THEN {Found(kv[k])} ELSE {KeyNotFound}

\* The shape of the radix tree of a mapping d: one node for the empty key, for
\* every key of d and for every longest common prefix of two keys of d; a node
\* holds content exactly when its key is in d; the parent of a node is the
\* node of the longest proper prefix of its key, which lists it under the
\* rest of the key.
AbsKey(ns, id) == Concat(chain(ns, id))
CanonKeys(d) ==
  {<<>>} \cup DOMAIN d
         \cup {SubSeq(k, 1, CommonLen(k, l)) : k \in DOMAIN d, l \in DOMAIN d}

Canonical(ns, d) ==
  /\ {AbsKey(ns, id) : id \in DOMAIN ns} = CanonKeys(d)
  /\ Cardinality(DOMAIN ns) = Cardinality(CanonKeys(d))
  /\ \A id \in DOMAIN ns :
        /\ ns[id].has_content = (AbsKey(ns, id) \in DOMAIN d)
        /\ ns[id].content = IF ns[id].has_content THEN d[AbsKey(ns, id)] ELSE None
        /\ \A s \in DOMAIN ns[id].subtries :
              /\ ns[ns[id].subtries[s]].parent = id
              /\ ns[ns[id].subtries[s]].suffix = s
        /\ id # Root =>
              /\ ns[id].parent # None /\ ns[id].suffix # <<>>
              /\ ns[id].suffix \in DOMAIN ns[ns[id].parent].subtries
              /\ ns[ns[id].parent].subtries[ns[id].suffix] = id
              /\ \A k \in CanonKeys(d) :
                    ~(/\ Len(AbsKey(ns, ns[id].parent)) < Len(k)
                      /\ Len(k) < Len(AbsKey(ns, id))
                      /\ CommonLen(k, AbsKey(ns, id)) = Len(k))

\* C18: Canonical shape. As long as every call so far has completed (or was
\* refused with KeyError), the tree is the radix tree of the current mapping,
\* whatever the calls that led to it.
CanonicalShape == faults = 0 => Canonical(nodes, kv)

\* A completed delete that merged a node into its parent, and left the
\* canonical tree of a mapping with two keys.
CanonicalShapeWitness ==
  /\ faults = 0 /\ last.op = "del" /\ last.err = "none"
  /\ Fired("move") /\ Fired("remove")
  /\ Cardinality(DOMAIN kv) = 2
  /\ Canonical(nodes, kv)

\* C19: Moves preserve absolute keys. For every move callback, of a split in
\* set or of a merge in compaction, old_chain followed by old_key spells the
\* same key as new_chain followed by new_key, which is the key of the moved
\* node before and after the move; no node that existed before the call has
\* changed its absolute key when the callback is delivered.
MovesPreserveKeys ==
  \A i \in DOMAIN events :
     events[i].kind = "move" =>
        LET e == events[i]
        IN /\ Concat(e.chain) \o e.old_key = Concat(e.new_chain) \o e.new_key
           /\ e.node \in DOMAIN last.pre
           /\ AbsKey(last.pre, e.node) = Concat(e.chain) \o e.old_key
           /\ AbsKey(e.nodes, e.node) = Concat(e.new_chain) \o e.new_key
           /\ \A d \in DOMAIN last.pre : AbsKey(e.nodes, d) = AbsKey(last.pre, d)

\* A completed delete whose merge moved a node that has children of its own,
\* under a suffix longer than the one it had.
MovesPreserveKeysWitness ==
  /\ last.op = "del" /\ last.err = "none"
  /\ \E i \in DOMAIN events :
        /\ events[i].kind = "move"
        /\ DOMAIN events[i].nodes[events[i].node].subtries # {}
        /\ Len(events[i].new_key) > Len(events[i].old_key)

\* C20: Parent/child registration consistency. After every completed set or
\* delete, every entry s -> c of the children of a node n of the trie has a
\* non-empty s, c's suffix is s and c's parent is n, and every node of the
\* trie but the root is listed exactly once among the children of the nodes.
Listings(ns, id) ==
  {<<p, s>> \in InTrie(ns) \X Keys : s \in DOMAIN ns[p].subtries /\ ns[p].subtries[s] = id}

RegistrationConsistency ==
  Completed =>
     /\ \A n \in InTrie(nodes) : \A s \in DOMAIN nodes[n].subtries :
           /\ s # <<>>
           /\ nodes[nodes[n].subtries[s]].suffix = s
           /\ nodes[nodes[n].subtries[s]].parent = n
     /\ \A id \in InTrie(nodes) \ {Root} : Cardinality(Listings(nodes, id)) = 1

====
